---- MODULE Spec2Model ----
(***************************************************************************)
(* Model of the document-to-context pipeline of rag-trl-calculator         *)
(* (src/backend): the per-technology processing flag and the indexing run  *)
(* (processing/indexer.py), retrieval fusion and context assembly          *)
(* (retrieval/context_retriever.py), document removal, and chunk-id        *)
(* generation (utils/file_utils.py).                                       *)
(*                                                                         *)
(* Strings are modelled as sequences of atoms: an atom is either one of    *)
(* the punctuation characters ".", "-", "_" or an alphanumeric word        *)
(* ("a", "b", "txt", ...), so that character-level operations of the code  *)
(* (str.replace, pathlib suffix, the filename regex) are computed on the   *)
(* sequence and never assumed.                                             *)
(***************************************************************************)
EXTENDS Integers, Sequences, FiniteSets, TLC

VARIABLES
    processing_status,  \* indexer.py:12  dict technology id -> bool
    collections,        \* the persistent vector store: name -> set of chunks
    runs,               \* calls of process_and_index_document
    queries,            \* calls of get_cached_search
    call                \* one call of a pure function: its arguments and result

vars == <<processing_status, collections, runs, queries, call>>

(***************************************************************************)
(* Bounds of the model.                                                    *)
(***************************************************************************)
MaxCand == 3        \* candidates one collection query returns (fusion)
MaxK == 3           \* requested result count k (fusion)
MaxDist == 5        \* distances are 1..MaxDist (tenths)
MaxPassages == 3    \* passages handed to trim_for_ctx
MaxTokens == 10     \* formatted token length of one passage
MaxLimit == 8       \* token budget handed to trim_for_ctx
MaxStem == 3        \* atoms of a filename before its extension
MaxChunks == 2      \* chunks of one indexed file

Tech == {"t1", "t2"}
Runs == {1, 2}           \* slots for concurrent calls of process_and_index_document
Queries == {"q1"}

(***************************************************************************)
(* Strings as sequences of atoms.                                          *)
(***************************************************************************)
Punct == {".", "-", "_"}
Alnum == {"a", "txt", "pdf", "md", "exe"}

RECURSIVE SeqsUpTo(_, _)
SeqsUpTo(S, n) ==
    IF n = 0 THEN {<<>>}
    ELSE LET shorter == SeqsUpTo(S, n - 1)
         IN  shorter \cup {Append(s, x) : s \in {t \in shorter : Len(t) = n - 1}, x \in S}

Range(s) == {s[i] : i \in DOMAIN s}

\* str.endswith
EndsWith(s, suffix) ==
    /\ Len(s) >= Len(suffix)
    /\ SubSeq(s, Len(s) - Len(suffix) + 1, Len(s)) = suffix

\* pathlib.PurePath.suffix: from the last "." to the end, when that "." is
\* neither the first nor the last character of the name; "" otherwise.
Suffix(name) ==
    LET dots == {i \in DOMAIN name : name[i] = "."}
    IN  IF dots = {} THEN <<>>
        ELSE LET i == CHOOSE j \in dots : \A l \in dots : l <= j
             IN  IF 1 < i /\ i < Len(name) THEN SubSeq(name, i, Len(name)) ELSE <<>>

(***************************************************************************)
(* The vector store (external collaborator, spec section 6): named         *)
(* collections of chunks.  A chunk carries its id, the 'source' entry of   *)
(* its metadata (<<>> when the metadata has none) and its distance to the   *)
(* question being asked.                                                   *)
(***************************************************************************)
TechCollection(tech_id) == <<"tech", tech_id>>     \* f"tech_{tech_id}"
TrlCollection == <<"trl">>

FileTxt == <<"a", ".", "txt">>
FilePdf == <<"a", ".", "pdf">>
FileExe == <<"a", ".", "exe">>
Files == {FileTxt, FilePdf, FileExe}

\* client.get_or_create_collection(name)
get_or_create_collection(cols, name) ==
    [n \in DOMAIN cols \cup {name} |-> IF n \in DOMAIN cols THEN cols[n] ELSE {}]

Contents(cols, name) == IF name \in DOMAIN cols THEN cols[name] ELSE {}

\* collection.delete(ids=...)
StoreDelete(cols, name, ids) ==
    [cols EXCEPT ![name] = {c \in @ : c.id \notin ids}]

\* collection.query(n_results=n): the n nearest chunks, nearest first; the
\* store orders chunks of equal distance as it likes.
Rankings(chunks) ==
    {s \in [1..Cardinality(chunks) -> chunks] :
        /\ \A i, j \in DOMAIN s : i # j => s[i] # s[j]
        /\ \A i, j \in DOMAIN s : i < j => s[i].distance <= s[j].distance}

Take(s, n) == SubSeq(s, 1, IF n < Len(s) THEN n ELSE Len(s))

(***************************************************************************)
(* Results of calls: a call either returns a value or raises.              *)
(***************************************************************************)
Return(v) == [kind |-> "return", value |-> v]
Raise(e) == [kind |-> "raise", value |-> e]

(***************************************************************************)
(* The tokenizer (utils/hf_models.py).  get_just_tokenizer has one         *)
(* required positional parameter, model_id, and no default; args is the    *)
(* argument list of the call.  Both callers in the pipeline,               *)
(* document_processor.py:13 and context_retriever.py:121, call it as       *)
(* get_just_tokenizer(), so the call raises TypeError before               *)
(* AutoTokenizer.from_pretrained is reached.                               *)
(***************************************************************************)
get_just_tokenizer(args) ==
    IF Len(args) = 1 THEN Return("tokenizer") ELSE Raise("TypeError")

(***************************************************************************)
(* create_semantic_chunks (document_processor.py:8-136).  A text is a      *)
(* sequence of atoms: Newline, or a word.  A line is a maximal run of      *)
(* words; it matches the header rule of a section when its first word is   *)
(* that section's heading word, written here as the section key itself.    *)
(***************************************************************************)
Newline == "\n"

\* line 98, the keys of section_headers in declaration order (lines 29-38)
defined_section_keys ==
    <<"abstract", "introduction", "methodology", "results", "discussion",
      "conclusion", "references", "appendices">>

\* lines 70-71: the key of the first rule, in declaration order, that
\* matches the line, or "none"
section_headers(line) ==
    IF line # <<>> /\ \E n \in DOMAIN defined_section_keys :
                         defined_section_keys[n] = line[1]
    THEN line[1]
    ELSE "none"

\* str.split(sep) for a separator of sep_len newlines
RECURSIVE Split(_, _)
Split(text, sep_len) ==
    LET at == {i \in 1..(Len(text) - sep_len + 1) :
                  \A d \in 0..(sep_len - 1) : text[i + d] = Newline}
    IN  IF at = {} THEN <<text>>
        ELSE LET i == CHOOSE x \in at : \A y \in at : x <= y
             IN  <<SubSeq(text, 1, i - 1)>>
                     \o Split(SubSeq(text, i + sep_len, Len(text)), sep_len)

\* str.strip()
RECURSIVE Strip(_)
Strip(text) ==
    IF text = <<>> THEN <<>>
    ELSE IF Head(text) = Newline THEN Strip(Tail(text))
    ELSE IF text[Len(text)] = Newline THEN Strip(SubSeq(text, 1, Len(text) - 1))
    ELSE text

\* sep.join(parts) for a separator of sep_len newlines
RECURSIVE JoinLines(_, _)
JoinLines(parts, sep_len) ==
    IF parts = <<>> THEN <<>>
    ELSE IF Len(parts) = 1 THEN parts[1]
    ELSE JoinLines(SubSeq(parts, 1, Len(parts) - 1), sep_len)
             \o [d \in 1..sep_len |-> Newline] \o parts[Len(parts)]

\* lines 41-55
Paragraphs(text) ==
    LET paragraphs == Split(text, 2)
        alt_paragraphs == SelectSeq(Split(text, 1), LAMBDA p : Strip(p) # <<>>)
    IN  IF Len(paragraphs) < 20 /\ Len(alt_paragraphs) > Len(paragraphs) * 3
        THEN alt_paragraphs
        ELSE paragraphs

\* lines 68-71 and 88-89: the index of the first line that matches a rule,
\* or 0
FirstHeaderLine(lines) ==
    LET matching == {i \in DOMAIN lines : section_headers(lines[i]) # "none"}
    IN  IF matching = {} THEN 0 ELSE CHOOSE i \in matching : \A j \in matching : i <= j

\* lines 73-75 and 94-95
Flush(sections_map, current_section_key, current_section_texts_buffer) ==
    IF current_section_texts_buffer = <<>> THEN sections_map
    ELSE [sections_map EXCEPT ![current_section_key] =
              Append(@, JoinLines(current_section_texts_buffer, 2))]

\* lines 58-95, from paragraph para_idx on
RECURSIVE ParseSections(_, _, _, _, _)
ParseSections(paragraphs, para_idx, sections_map, current_section_key, current_section_texts_buffer) ==
    IF para_idx > Len(paragraphs)
    THEN Flush(sections_map, current_section_key, current_section_texts_buffer)
    ELSE LET para == paragraphs[para_idx]
             para_strip == Strip(para)
             lines == Split(para_strip, 1)
             line_idx == FirstHeaderLine(lines)
         IN  IF para_strip = <<>> \/ line_idx = 0
             THEN ParseSections(paragraphs, para_idx + 1, sections_map,
                                current_section_key,
                                Append(current_section_texts_buffer, para))
             ELSE LET remaining_content ==
                          Strip(JoinLines(SubSeq(lines, line_idx + 1, Len(lines)), 1))
                  IN  ParseSections(paragraphs, para_idx + 1,
                          Flush(sections_map, current_section_key,
                                current_section_texts_buffer),
                          section_headers(lines[line_idx]),
                          IF remaining_content = <<>> THEN <<>>
                          ELSE <<remaining_content>>)

\* The target chunk size, in words; the source's default is 450 tokens.
ChunkSizeTokens == 2

\* The number of words of a text
Words(text) == Cardinality({i \in DOMAIN text : text[i] # Newline})

\* text_splitter.split_text (lines 17-22): the lines of the text, merged
\* in order into pieces of at most ChunkSizeTokens words where they fit.
RECURSIVE MergeLines(_, _)
MergeLines(lines, pieces) ==
    IF lines = <<>> THEN pieces
    ELSE IF pieces # <<>>
            /\ Words(pieces[Len(pieces)]) + Words(Head(lines)) <= ChunkSizeTokens
    THEN MergeLines(Tail(lines),
             [pieces EXCEPT ![Len(pieces)] = @ \o <<Newline>> \o Head(lines)])
    ELSE MergeLines(Tail(lines), Append(pieces, Head(lines)))

split_text(text) ==
    MergeLines(SelectSeq(Split(text, 1), LAMBDA l : l # <<>>), <<>>)

\* lines 100-113 for one section, and lines 115-126 for "other"
SectionChunks(sections_map, section_name) ==
    LET full_section_text == Strip(JoinLines(sections_map[section_name], 2))
        split_section_texts == split_text(full_section_text)
    IN  IF full_section_text = <<>> THEN <<>>
        ELSE [i \in DOMAIN split_section_texts |->
                 [text |-> split_section_texts[i], section |-> section_name,
                  chunk_in_section |-> i]]

\* lines 96-126: the chunks of the first n defined sections, in that order
RECURSIVE FinalChunks(_, _)
FinalChunks(sections_map, n) ==
    IF n = 0 THEN <<>>
    ELSE FinalChunks(sections_map, n - 1)
             \o SectionChunks(sections_map, defined_section_keys[n])

\* document_processor.py:8-136.  Line 13 is tokenizer = get_just_tokenizer();
\* its exception leaves the function, so lines 14-136 are not reached.
create_semantic_chunks(text) ==
    LET tokenizer == get_just_tokenizer(<<>>)
        sections_map == ParseSections(Paragraphs(text), 1,
                            [key \in Range(defined_section_keys) \cup {"other"} |-> <<>>],
                            "other", <<>>)
    IN  IF tokenizer.kind = "raise" THEN tokenizer
        ELSE Return(FinalChunks(sections_map, Len(defined_section_keys))
                        \o SectionChunks(sections_map, "other"))

(***************************************************************************)
(* The processing flag (indexer.py:12-15).                                 *)
(***************************************************************************)
\* A flag read that always answers False.
NeverProcessing(ps, technology_id) == FALSE

\* processing_status.get(technology_id, False)
is_processing(ps, technology_id) ==
    IF technology_id \in DOMAIN ps THEN ps[technology_id] ELSE FALSE

\* An assignment that stores the value under every technology id.
SetEveryStatus(ps, tech_id, value) == [t \in Tech |-> value]

\* processing_status[tech_id] = value
SetStatus(ps, tech_id, value) ==
    [t \in DOMAIN ps \cup {tech_id} |-> IF t = tech_id THEN value ELSE ps[t]]

(***************************************************************************)
(* process_and_index_document (indexer.py:48-144), one call per slot of    *)
(* runs.  FastAPI runs each background task in a worker thread, so calls   *)
(* for the same or different technologies interleave.                      *)
(*   pc = "idle"     no call in progress; tech, ret and exit are those of  *)
(*                   the slot's last call (exit names the path it left by) *)
(*   pc = "extract"  the flag is set, the file is about to be read         *)
(*   pc = "chunk"    text_content is non-blank, line 99 is next            *)
(***************************************************************************)
IdleRun == [pc |-> "idle", tech |-> "t1", file |-> FileTxt, ret |-> "none",
            exit |-> "none"]

\* What reading the file can do, by extension (lines 55-93): PyPDF2 or
\* open() may raise, and the text read may be blank.
ReadOutcomes(file_extension) ==
    IF file_extension = <<".", "pdf">> THEN {"pdf_error", "blank", "text"}
    ELSE IF file_extension \in {<<".", "txt">>, <<".", "md">>}
         THEN {"read_error", "blank", "text"}
         ELSE {"unsupported"}

\* lines 71-74, 90-93, 94-97 and 141-144: every exit that follows a failure
\* stores False in the flag and returns False.
ClearAndFail(ps, tech_id) == [status |-> SetStatus(ps, tech_id, FALSE), ret |-> "False"]

\* A handler that returns False and leaves the flag as it is.
HandlerKeepsFlag(ps, tech_id) == [status |-> ps, ret |-> "False"]

\* lines 141-144: the handler of any exception raised inside the try block.
ExceptHandler(ps, tech_id) == ClearAndFail(ps, tech_id)

\* lines 48-52
IndexBegin(r, tech_id, file) ==
    /\ runs[r].pc = "idle"
    /\ \A r2 \in Runs : r2 < r => runs[r2].pc # "idle"
    /\ processing_status' = SetStatus(processing_status, tech_id, TRUE)
    /\ runs' = [runs EXCEPT ![r] = [pc |-> "extract", tech |-> tech_id,
                                     file |-> file, ret |-> "none",
                                     exit |-> "none"]]
    /\ UNCHANGED <<collections, queries, call>>

\* lines 53-97
IndexExtract(r) ==
    /\ runs[r].pc = "extract"
    /\ \E outcome \in ReadOutcomes(Suffix(runs[r].file)) :
         IF outcome = "text"
         THEN /\ runs' = [runs EXCEPT ![r].pc = "chunk"]
              /\ UNCHANGED processing_status
         ELSE LET exit == IF outcome = "read_error"
                          THEN ExceptHandler(processing_status, runs[r].tech)
                          ELSE ClearAndFail(processing_status, runs[r].tech)
              IN  /\ processing_status' = exit.status
                  /\ runs' = [runs EXCEPT ![r] =
                                [IdleRun EXCEPT !.tech = runs[r].tech,
                                                !.ret = exit.ret,
                                                !.exit = outcome]]
    /\ UNCHANGED <<collections, queries, call>>

\* lines 98-99 and 141-144.  create_semantic_chunks raises, so control passes
\* from line 99 to the handler; lines 100-140 (embedding, collection.add, the
\* success exit) are not reached by any call.
IndexChunk(r) ==
    /\ runs[r].pc = "chunk"
    /\ LET chunks_data == create_semantic_chunks("text")
       IN  IF chunks_data.kind = "raise"
           THEN LET exit == ExceptHandler(processing_status, runs[r].tech)
                IN  /\ processing_status' = exit.status
                    /\ runs' = [runs EXCEPT ![r] =
                                  [IdleRun EXCEPT !.tech = runs[r].tech,
                                                  !.ret = exit.ret,
                                                  !.exit = "chunking_error"]]
           ELSE /\ runs' = [runs EXCEPT ![r].pc = "embed"]
                /\ UNCHANGED processing_status
    /\ UNCHANGED <<collections, queries, call>>

(***************************************************************************)
(* Retrieval fusion: get_cached_search (context_retriever.py:15-62).       *)
(***************************************************************************)
\* lines 64-90: one passage per returned chunk, in the order returned.
\* tech_id is <<>> for the shared collection (tech_id=None).
\* A request for half of k candidates.
HalfOfK(k) == k \div 2

\* lines 30 and 40: n_results=k * 2
NResults(k) == k * 2

_process_collection_results_with_scores(res, tech_id) ==
    [i \in DOMAIN res |->
        [id |-> res[i].id,
         source_document |->
            IF tech_id # <<>>
            THEN (IF res[i].source # <<>> THEN res[i].source
                  ELSE <<"Tech", tech_id[1], "Document">>)
            ELSE <<"Glossario TRL">>,
         distance |-> res[i].distance]]

\* An insertion that puts x before the elements of equal distance.
InsertBeforeEqual(sorted, x) ==
    LET n == Cardinality({i \in DOMAIN sorted : sorted[i].distance < x.distance})
    IN  SubSeq(sorted, 1, n) \o <<x>> \o SubSeq(sorted, n + 1, Len(sorted))

\* list.sort(key=lambda x: x['distance']), line 48: ascending and stable
\* (elements of equal key keep their order).
InsertByDistance(sorted, x) ==
    LET n == Cardinality({i \in DOMAIN sorted : sorted[i].distance <= x.distance})
    IN  SubSeq(sorted, 1, n) \o <<x>> \o SubSeq(sorted, n + 1, Len(sorted))

\* The candidates left in the order in which they were concatenated.
KeepOrder(s) == s

RECURSIVE SortByDistance(_)
SortByDistance(s) ==
    IF s = <<>> THEN <<>>
    ELSE InsertByDistance(SortByDistance(SubSeq(s, 1, Len(s) - 1)), s[Len(s)])

\* lines 33-34, 46-51: extend, extend, sort, all_candidates[:k]
FuseCandidates(tech_candidates, trl_candidates, k) ==
    Take(SortByDistance(tech_candidates \o trl_candidates), k)

(***************************************************************************)
(* One call of get_cached_search per slot of queries.                      *)
(*   pc = "idle"       no call in progress; outcome/result are the last    *)
(*                     call's                                              *)
(*   pc = "query_tech" the flag was read false (line 17); lines 21-34 next *)
(*   pc = "query_trl"  the technology collection was queried; 36-51 next   *)
(* at_check is the value processing_status held when line 17 read it;      *)
(* issued counts the collection.query calls the call made.  A finished     *)
(* call leaves its outcome, issued and result in the slot.                 *)
(***************************************************************************)
QueryK == {1, 2}

IdleQuery == [pc |-> "idle", tech |-> "t1", k |-> 1, at_check |-> FALSE,
              issued |-> 0, cands |-> <<>>,
              outcome |-> "none", result |-> <<>>]

\* lines 15-19
SearchCheck(q, tech_id, k) ==
    /\ queries[q].pc = "idle"
    /\ LET started == [IdleQuery EXCEPT !.tech = tech_id, !.k = k,
                          !.at_check = (tech_id \in DOMAIN processing_status
                                        /\ processing_status[tech_id])]
       IN  IF is_processing(processing_status, tech_id)
           THEN queries' = [queries EXCEPT ![q] =
                               [started EXCEPT !.outcome = "ValueError"]]
           ELSE queries' = [queries EXCEPT ![q] =
                               [started EXCEPT !.pc = "query_tech"]]
    /\ UNCHANGED <<processing_status, collections, runs, call>>

\* lines 21-34: embed the question, get or create tech_<id>, query it for 2k
\* candidates.  get_hf_embeddings or the store may raise; nothing in
\* get_cached_search catches it.
SearchTech(q) ==
    /\ queries[q].pc = "query_tech"
    /\ LET name == TechCollection(queries[q].tech)
           created == get_or_create_collection(collections, name)
       IN  \/ /\ queries' = [queries EXCEPT ![q] =
                                [IdleQuery EXCEPT !.outcome = "EmbeddingError"]]
              /\ UNCHANGED collections
           \/ /\ queries' = [queries EXCEPT ![q] =
                                [IdleQuery EXCEPT !.outcome = "StoreError",
                                                  !.issued = 1]]
              /\ collections' = created
           \/ \E ranked \in Rankings(created[name]) :
                /\ queries' = [queries EXCEPT
                      ![q].pc = "query_trl",
                      ![q].issued = 1,
                      ![q].cands = _process_collection_results_with_scores(
                                       Take(ranked, NResults(queries[q].k)),
                                       <<queries[q].tech>>)]
                /\ collections' = created
    /\ UNCHANGED <<processing_status, runs, call>>

\* lines 36-62: get or create "trl", query it for 2k candidates, merge, sort,
\* cut to k, return.
SearchTrl(q) ==
    /\ queries[q].pc = "query_trl"
    /\ LET created == get_or_create_collection(collections, TrlCollection)
       IN  \/ /\ queries' = [queries EXCEPT ![q] =
                                [IdleQuery EXCEPT !.outcome = "StoreError",
                                                  !.issued = 2]]
              /\ collections' = created
           \/ \E ranked \in Rankings(created[TrlCollection]) :
                /\ queries' = [queries EXCEPT ![q] =
                      [IdleQuery EXCEPT
                          !.issued = 2,
                          !.outcome = "returned",
                          !.result = FuseCandidates(
                              queries[q].cands,
                              _process_collection_results_with_scores(
                                  Take(ranked, NResults(queries[q].k)), <<>>),
                              queries[q].k)]]
                /\ collections' = created
    /\ UNCHANGED <<processing_status, runs, call>>

(***************************************************************************)
(* Chunk ids (utils/file_utils.py:104-112; indexer.py:128-130 repeats the  *)
(* same two expressions inline).                                           *)
(***************************************************************************)
\* str(i) for the indexes the model uses
Str(i) == <<"0", "1", "2", "3", "4", "5", "6", "7", "8", "9">>[i + 1]

\* filename.replace('.', '_').replace('-', '_')
create_safe_filename(filename) ==
    [i \in DOMAIN filename |-> IF filename[i] \in {".", "-"} THEN "_" ELSE filename[i]]

\* [f"{tech_id}_{safe_filename}_{i}" for i in range(chunk_count)]
generate_unique_chunk_ids(tech_id, filename, chunk_count) ==
    LET safe_filename == create_safe_filename(filename)
    IN  [n \in 1..chunk_count |-> <<tech_id, "_">> \o safe_filename \o <<"_", Str(n - 1)>>]

(***************************************************************************)
(* remove_document_from_index (indexer.py:17-46).                          *)
(***************************************************************************)
\* The ids of all the chunks of the collection, whatever their source.
IdsOfAll(results, filename) == {c.id : c \in results}

\* lines 30-34: the ids of the chunks whose metadata has source == filename
IdsToRemove(results, filename) == {c.id : c \in {x \in results : x.source = filename}}

\* The whole call, run without interleaving.  fail names the store call that
\* raises: "none", "get" (get_or_create_collection or collection.get, lines
\* 22-28) or "delete" (line 37).  The result is the store after the call and
\* the value returned.
remove_document_from_index(cols, tech_id, filename, fail) ==
    LET name == TechCollection(tech_id)
        created == get_or_create_collection(cols, name)
        ids_to_remove == IdsToRemove(created[name], filename)
    IN  IF fail = "get" THEN [cols |-> cols, ret |-> "False"]
        ELSE IF ids_to_remove = {} THEN [cols |-> created, ret |-> "True"]
        ELSE IF fail = "delete" THEN [cols |-> created, ret |-> "False"]
        ELSE [cols |-> StoreDelete(created, name, ids_to_remove), ret |-> "True"]

(***************************************************************************)
(* The store when the service starts.  The store is persistent and owned   *)
(* externally, so a technology collection may be absent or hold chunks     *)
(* written earlier: chunks indexed from a file (ids and 'source' as        *)
(* indexer.py:102-137 writes them) and chunks whose metadata has no        *)
(* 'source' (as retriever.py:310-325 writes them).  The glossary           *)
(* collection "trl" exists (context_retriever.py:13).                      *)
(***************************************************************************)
DistanceOf(filename, n) ==
    IF filename = FileTxt THEN <<1, 3>>[n] ELSE <<2, 3>>[n]

IndexedChunks(tech_id, filename, chunk_count) ==
    LET ids == generate_unique_chunk_ids(tech_id, filename, chunk_count)
    IN  {[id |-> ids[n], source |-> filename, distance |-> DistanceOf(filename, n)] :
            n \in 1..chunk_count}

LegacyChunk(tech_id) == [id |-> <<tech_id, "_", "0">>, source |-> <<>>, distance |-> 4]

GlossaryChunks ==
    {[id |-> <<"g1">>, source |-> <<>>, distance |-> 2],
     [id |-> <<"g2">>, source |-> <<>>, distance |-> 4]}

InitialTechContents(tech_id, filled) ==
    IF filled
    THEN IndexedChunks(tech_id, FileTxt, 2) \cup IndexedChunks(tech_id, FilePdf, 1)
            \cup {LegacyChunk(tech_id)}
    ELSE IndexedChunks(tech_id, FileTxt, 2)

InitialStores ==
    {[name \in {TrlCollection} \cup {TechCollection(t) : t \in present} |->
         IF name = TrlCollection THEN GlossaryChunks
         ELSE InitialTechContents(name[2], filled[name[2]])] :
        present \in SUBSET Tech, filled \in [Tech -> BOOLEAN]}

NoCall == [fn |-> "none"]

Init ==
    /\ processing_status = <<>>
    /\ collections \in InitialStores
    /\ runs = [r \in Runs |-> IdleRun]
    /\ queries = [q \in Queries |-> IdleQuery]
    /\ call = NoCall

Next ==
    \/ \E r \in Runs, t \in Tech, f \in Files : IndexBegin(r, t, f)
    \/ \E r \in Runs : IndexExtract(r)
    \/ \E r \in Runs : IndexChunk(r)
    \/ \E q \in Queries, t \in Tech, k \in QueryK : SearchCheck(q, t, k)
    \/ \E q \in Queries : SearchTech(q)
    \/ \E q \in Queries : SearchTrl(q)

Spec == Init /\ [][Next]_vars

(***************************************************************************)
(* Properties of the processing flag and of the retrieval gate.            *)
(***************************************************************************)
InProgress(tech_id) == \E r \in Runs : runs[r].pc # "idle" /\ runs[r].tech = tech_id

\* A step in which run r returns.
Returns(r) == runs[r].pc # "idle" /\ runs'[r].pc = "idle"

\* C1: every run of process_and_index_document stores False in its
\* technology's flag in the step in which it returns, whatever path it leaves
\* by; and whenever no run for a technology is in progress the flag of that
\* technology reads false.
C1_FlagClearedOnEveryExit ==
    /\ [](\A t \in Tech : ~InProgress(t) => ~is_processing(processing_status, t))
    /\ [][\A r \in Runs : Returns(r) =>
              /\ runs[r].tech \in DOMAIN processing_status'
              /\ processing_status'[runs[r].tech] = FALSE]_vars

\* A run for t1 left through the exception handler after chunking raised, no
\* run for t1 is in progress, and the flag of t1 is stored and false.
C1_Witness ==
    /\ \E r \in Runs : /\ runs[r].pc = "idle" /\ runs[r].tech = "t1"
                       /\ runs[r].exit = "chunking_error" /\ runs[r].ret = "False"
    /\ ~InProgress("t1")
    /\ "t1" \in DOMAIN processing_status
    /\ processing_status["t1"] = FALSE

\* C2: a call of get_cached_search that read the flag true at its check has
\* raised the still-processing error, has issued no query against either
\* collection and has returned no passage list.
C2_RefusesWhileProcessing ==
    \A q \in Queries :
        queries[q].at_check =>
            /\ queries[q].pc = "idle"
            /\ queries[q].outcome = "ValueError"
            /\ queries[q].issued = 0
            /\ queries[q].result = <<>>

\* A call was refused while a run for its technology was in progress.
C2_Witness ==
    \E q \in Queries :
        /\ queries[q].at_check
        /\ queries[q].outcome = "ValueError"
        /\ InProgress(queries[q].tech)

(***************************************************************************)
(* Fusion on its own: lines 28-51 of get_cached_search applied to the two  *)
(* result lists the store returned.  A collection query returns at most    *)
(* n_results = 2k chunks, nearest first.                                   *)
(***************************************************************************)
Min(a, b) == IF a < b THEN a ELSE b

IsNonDecreasing(ds) == \A i, j \in DOMAIN ds : i < j => ds[i] <= ds[j]

DistanceLists == {ds \in SeqsUpTo(1..MaxDist, MaxCand) : IsNonDecreasing(ds)}

\* The chunks of one query result with the given distances.
QueryResult(tag, source, ds) ==
    [i \in DOMAIN ds |-> [id |-> <<tag, Str(i)>>, source |-> source, distance |-> ds[i]]]

IdleStore == [name \in {TrlCollection} |-> GlossaryChunks]

InitFusion ==
    /\ processing_status = <<>>
    /\ collections = IdleStore
    /\ runs = [r \in Runs |-> IdleRun]
    /\ queries = [q \in Queries |-> IdleQuery]
    /\ \E k \in 1..MaxK, tech_ds \in DistanceLists, trl_ds \in DistanceLists :
         /\ Len(tech_ds) <= 2 * k
         /\ Len(trl_ds) <= 2 * k
         /\ call = [fn |-> "get_cached_search", pc |-> "called", k |-> k,
                    tech_res |-> QueryResult("c", FileTxt, tech_ds),
                    trl_res |-> QueryResult("g", <<>>, trl_ds),
                    result |-> <<>>]

\* lines 28-51
Fuse ==
    /\ call.fn = "get_cached_search"
    /\ call.pc = "called"
    /\ call' = [call EXCEPT
          !.pc = "returned",
          !.result = FuseCandidates(
              _process_collection_results_with_scores(call.tech_res, <<"t1">>),
              _process_collection_results_with_scores(call.trl_res, <<>>),
              call.k)]
    /\ UNCHANGED <<processing_status, collections, runs, queries>>

NextFusion == Fuse

SpecFusion == InitFusion /\ [][NextFusion]_vars

Distances(s) == [i \in DOMAIN s |-> s[i].distance]

\* C4: the list get_cached_search returns has min(k, total) elements, all of
\* them distinct candidates of the two result lists, with non-decreasing
\* distances, and no candidate left out is strictly nearer than one kept;
\* distances [1,3,5] and [2,4] with k = 3 give [1,2,3].
C4_FusionTopK ==
    (call.fn = "get_cached_search" /\ call.pc = "returned") =>
        LET all == Range(call.tech_res) \cup Range(call.trl_res)
            total == Len(call.tech_res) + Len(call.trl_res)
            out == call.result
            kept == {out[i].id : i \in DOMAIN out}
        IN  /\ Len(out) = Min(call.k, total)
            /\ IsNonDecreasing(Distances(out))
            /\ \A i, j \in DOMAIN out : i # j => out[i].id # out[j].id
            /\ \A i \in DOMAIN out :
                  \E c \in all : c.id = out[i].id /\ c.distance = out[i].distance
            /\ \A c \in all : c.id \notin kept =>
                  \A i \in DOMAIN out : out[i].distance <= c.distance
            /\ (/\ Distances(call.tech_res) = <<1, 3, 5>>
                /\ Distances(call.trl_res) = <<2, 4>>
                /\ call.k = 3) => Distances(out) = <<1, 2, 3>>

\* Scenario B has been fused: [1,3,5] and [2,4] with k = 3 returned [1,2,3].
C4_Witness ==
    /\ call.fn = "get_cached_search"
    /\ call.pc = "returned"
    /\ Distances(call.tech_res) = <<1, 3, 5>>
    /\ Distances(call.trl_res) = <<2, 4>>
    /\ call.k = 3
    /\ Distances(call.result) = <<1, 2, 3>>

\* The place of a candidate in the concatenation of the two result lists.
PlaceOf(id) ==
    IF \E i \in DOMAIN call.tech_res : call.tech_res[i].id = id
    THEN CHOOSE i \in DOMAIN call.tech_res : call.tech_res[i].id = id
    ELSE Len(call.tech_res) + (CHOOSE i \in DOMAIN call.trl_res : call.trl_res[i].id = id)

\* a ranks before b: it is nearer, or as near and earlier in the
\* concatenation (technology candidates first, each list in its own order).
RanksBefore(a, b) ==
    \/ a.distance < b.distance
    \/ a.distance = b.distance /\ PlaceOf(a.id) < PlaceOf(b.id)

\* C29: in the list get_cached_search has returned, candidates of equal
\* distance stand with the technology collection's before the shared
\* collection's and otherwise in the order their collection returned them,
\* and a candidate left out does not rank before one that was kept.
C29_TiesBrokenByOrigin ==
    (call.fn = "get_cached_search" /\ call.pc = "returned") =>
        LET all == Range(call.tech_res) \cup Range(call.trl_res)
            out == call.result
            kept == {out[i].id : i \in DOMAIN out}
        IN  /\ \A i, j \in DOMAIN out : i < j => RanksBefore(out[i], out[j])
            /\ \A c \in all : c.id \notin kept =>
                  \A i \in DOMAIN out : RanksBefore(out[i], c)

\* With k = 1, a technology candidate and a shared candidate at the same
\* distance, both nearest: the technology candidate was returned.
C29_Witness ==
    /\ call.fn = "get_cached_search"
    /\ call.pc = "returned"
    /\ call.k = 1
    /\ call.tech_res # <<>>
    /\ call.trl_res # <<>>
    /\ call.tech_res[1].distance = call.trl_res[1].distance
    /\ Len(call.result) = 1
    /\ call.result[1].id = call.tech_res[1].id

(***************************************************************************)
(* Context assembly: trim_for_ctx (context_retriever.py:117-154).          *)
(* A passage is described by its rank and by the number of tokens the       *)
(* tokenizer counts in its formatted text (source prefix + text, lines      *)
(* 132-134).  A context string is the sequence of its parts; a part is a   *)
(* passage (whole, or cut to a number of tokens), the separator, or one of *)
(* the fixed messages.                                                     *)
(***************************************************************************)
Separator == [sep |-> "\n\n---\n\n"]                                  \* line 149
MsgNoContext == [msg |-> "Nenhum contexto especifico encontrado."]     \* line 127
MsgTooLarge == [msg |-> "Contexto fornecido era muito grande para o limite de tokens e nao pode ser incluido."]  \* line 153
MsgNotPrepared == [msg |-> "Nenhum contexto especifico pode ser preparado dentro do limite de tokens."]          \* line 154

\* str.join(parts) with the separator of line 149
RECURSIVE Join(_)
Join(parts) ==
    IF Len(parts) <= 1 THEN parts
    ELSE Join(SubSeq(parts, 1, Len(parts) - 1)) \o <<Separator, parts[Len(parts)]>>

\* str.strip() leaves nothing: the string has no part, or only parts of no
\* token.
IsBlank(str) == \A i \in DOMAIN str : "tokens" \in DOMAIN str[i] /\ str[i].tokens = 0

\* lines 128-148, from passage i on.  reencoded is
\* len(tokenizer.encode(truncated_text)) of line 145: what the tokenizer
\* counts in the text decoded from the first `limit` token ids.
RECURSIVE TrimLoop(_, _, _, _, _, _)
TrimLoop(passages, i, limit, total_tokens, selected_context_parts, reencoded) ==
    IF i > Len(passages)
    THEN [parts |-> selected_context_parts, total |-> total_tokens]
    ELSE LET passage_tokens == passages[i].tokens
         IN  IF total_tokens + passage_tokens <= limit
             THEN TrimLoop(passages, i + 1, limit, total_tokens + passage_tokens,
                           Append(selected_context_parts, passages[i]), reencoded)
             ELSE IF selected_context_parts = <<>>
                  THEN [parts |-> <<[passages[i] EXCEPT !.tokens = Min(limit, @)]>>,
                        total |-> reencoded]
                  ELSE [parts |-> selected_context_parts, total |-> total_tokens]

\* lines 117-154.  Line 121 calls get_just_tokenizer with no argument; the
\* TypeError it raises is not caught and leaves trim_for_ctx.
trim_for_ctx(passages, limit, reencoded) ==
    LET tokenizer == get_just_tokenizer(<<>>)
    IN  IF tokenizer.kind = "raise" THEN tokenizer
        ELSE IF passages = <<>> THEN Return(<<MsgNoContext>>)
        ELSE LET final_context_str ==
                     Join(TrimLoop(passages, 1, limit, 0, <<>>, reencoded).parts)
             IN  IF IsBlank(final_context_str) THEN Return(<<MsgTooLarge>>)
                 ELSE Return(final_context_str)

TokenLists == SeqsUpTo(1..MaxTokens, MaxPassages)

Passages(ts) == [i \in DOMAIN ts |-> [rank |-> i, tokens |-> ts[i]]]

InitTrim ==
    /\ processing_status = <<>>
    /\ collections = IdleStore
    /\ runs = [r \in Runs |-> IdleRun]
    /\ queries = [q \in Queries |-> IdleQuery]
    /\ \E ts \in TokenLists, limit \in 0..MaxLimit :
         call = [fn |-> "trim_for_ctx", pc |-> "called",
                 passages |-> Passages(ts), limit |-> limit,
                 result |-> Return(<<>>)]

Trim ==
    /\ call.fn = "trim_for_ctx"
    /\ call.pc = "called"
    /\ \E reencoded \in {n \in {call.limit - 1, call.limit, call.limit + 1} : n >= 0} :
         call' = [call EXCEPT
            !.pc = "returned",
            !.result = trim_for_ctx(call.passages, call.limit, reencoded)]
    /\ UNCHANGED <<processing_status, collections, runs, queries>>

NextTrim == Trim

SpecTrim == InitTrim /\ [][NextTrim]_vars

(***************************************************************************)
(* Properties of context assembly, stated on a finished call.              *)
(***************************************************************************)
TrimReturned == call.fn = "trim_for_ctx" /\ call.pc = "returned"

RECURSIVE SumTokens(_)
SumTokens(str) ==
    IF str = <<>> THEN 0
    ELSE SumTokens(SubSeq(str, 1, Len(str) - 1))
           + (IF "tokens" \in DOMAIN str[Len(str)] THEN str[Len(str)].tokens ELSE 0)

\* The passages of a context string, without its separators.
PassagesOf(str) ==
    LET RECURSIVE Keep(_)
        Keep(t) == IF t = <<>> THEN <<>>
                   ELSE Keep(SubSeq(t, 1, Len(t) - 1))
                          \o (IF "tokens" \in DOMAIN t[Len(t)] THEN <<t[Len(t)]>> ELSE <<>>)
    IN  Keep(str)

\* The largest j such that passages 1..j together have at most limit tokens.
LongestPrefix(passages, limit) ==
    CHOOSE j \in 0..Len(passages) :
        /\ SumTokens(SubSeq(passages, 1, j)) <= limit
        /\ \A l \in (j + 1)..Len(passages) : SumTokens(SubSeq(passages, 1, l)) > limit

\* C5: a finished trim_for_ctx has returned a context whose accepted
\* passages have at most `limit` tokens in total, and exactly `limit` when
\* the first passage alone is longer than the limit.
C5_BudgetBound ==
    TrimReturned =>
        /\ call.result.kind = "return"
        /\ SumTokens(call.result.value) <= call.limit
        /\ (call.passages # <<>> /\ call.passages[1].tokens > call.limit) =>
               SumTokens(call.result.value) = call.limit

\* C6: when the first passage fits, a finished trim_for_ctx has returned
\* exactly the longest prefix of the passages that fits the limit, each
\* passage whole, in rank order, joined by the separator.
C6_LongestPrefix ==
    (TrimReturned /\ call.passages # <<>> /\ call.passages[1].tokens <= call.limit) =>
        /\ call.result.kind = "return"
        /\ call.result.value =
              Join(SubSeq(call.passages, 1, LongestPrefix(call.passages, call.limit)))

\* C7: when the first passage alone is longer than the limit, a finished
\* trim_for_ctx has returned that passage cut to `limit` tokens and nothing
\* else.
C7_FirstPassageTruncated ==
    (TrimReturned /\ call.passages # <<>> /\ call.passages[1].tokens > call.limit) =>
        /\ call.result.kind = "return"
        /\ call.result.value = <<[call.passages[1] EXCEPT !.tokens = call.limit]>>

\* C8: a finished trim_for_ctx has returned the "no candidates" message
\* exactly when the passage list is empty, the "too large" message exactly
\* when the list is non-empty and nothing could be placed, and the two
\* messages differ.
C8_Messages ==
    TrimReturned =>
        /\ call.result.kind = "return"
        /\ MsgNoContext # MsgTooLarge
        /\ (call.result.value = <<MsgNoContext>>) <=> (call.passages = <<>>)
        /\ (call.result.value = <<MsgTooLarge>>) <=>
              (call.passages # <<>> /\ PassagesOf(call.result.value) = <<>>)

\* The separators of a context string; each is at least one token of the
\* encoded string.
SeparatorsOf(str) == Cardinality({i \in DOMAIN str : str[i] = Separator})

\* C18: the token length of the whole string a finished trim_for_ctx has
\* returned, separators included, is at most the limit, and it equals the
\* limit on an input longer than the limit only when the string is the
\* truncated first passage alone.
C18_WholeContextWithinBudget ==
    TrimReturned =>
        /\ call.result.kind = "return"
        /\ SumTokens(call.result.value) + SeparatorsOf(call.result.value) <= call.limit
        /\ (/\ SumTokens(call.passages) > call.limit
            /\ SumTokens(call.result.value) + SeparatorsOf(call.result.value) = call.limit) =>
               /\ call.passages[1].tokens > call.limit
               /\ Len(call.result.value) = 1

(***************************************************************************)
(* Document removal on its own: remove_document_from_index called once,    *)
(* then called again with the same arguments, on a store nothing else       *)
(* touches.  fail names the store call that raises during a call, if any.  *)
(***************************************************************************)
StoreFaults == {"none", "get", "delete"}

\* The call has a store call raise: "get" always, "delete" when line 37 is
\* reached.
StoreRaises(cols, tech_id, filename, fail) ==
    \/ fail = "get"
    \/ fail = "delete" /\ IdsToRemove(Contents(cols, TechCollection(tech_id)), filename) # {}

InitRemove ==
    /\ processing_status = <<>>
    /\ collections \in InitialStores
    /\ runs = [r \in Runs |-> IdleRun]
    /\ queries = [q \in Queries |-> IdleQuery]
    /\ call = [fn |-> "remove_document_from_index", pc |-> "none"]

RemoveOnce(tech_id, filename, fail) ==
    /\ call.fn = "remove_document_from_index"
    /\ call.pc = "none"
    /\ LET done == remove_document_from_index(collections, tech_id, filename, fail)
       IN  /\ collections' = done.cols
           /\ call' = [fn |-> "remove_document_from_index", pc |-> "once",
                       tech |-> tech_id, filename |-> filename,
                       before |-> collections,
                       raised |-> StoreRaises(collections, tech_id, filename, fail),
                       ret |-> done.ret,
                       after |-> done.cols]
    /\ UNCHANGED <<processing_status, runs, queries>>

RemoveAgain(fail) ==
    /\ call.fn = "remove_document_from_index"
    /\ call.pc = "once"
    /\ LET done == remove_document_from_index(collections, call.tech, call.filename, fail)
       IN  /\ collections' = done.cols
           /\ call' = [fn |-> "remove_document_from_index", pc |-> "twice",
                       tech |-> call.tech, filename |-> call.filename,
                       before |-> call.before,
                       raised |-> call.raised
                                  \/ StoreRaises(collections, call.tech, call.filename, fail),
                       ret |-> call.ret,
                       after |-> call.after,
                       ret_again |-> done.ret]
    /\ UNCHANGED <<processing_status, runs, queries>>

NextRemove ==
    \/ \E t \in Tech, f \in Files, fail \in StoreFaults : RemoveOnce(t, f, fail)
    \/ \E fail \in StoreFaults : RemoveAgain(fail)

SpecRemove == InitRemove /\ [][NextRemove]_vars

RemoveCalled == call.fn = "remove_document_from_index" /\ call.pc \in {"once", "twice"}

NoMatch(cols, tech_id, filename) ==
    \A c \in Contents(cols, TechCollection(tech_id)) : c.source # filename

SameChunks(cols1, cols2) ==
    \A name \in DOMAIN cols1 \cup DOMAIN cols2 : Contents(cols1, name) = Contents(cols2, name)

\* What C9 says of a call and of its repetition, given the first call's
\* store and both results.
Idempotent ==
    /\ NoMatch(call.before, call.tech, call.filename) =>
          call.ret = "True" /\ SameChunks(call.after, call.before)
    /\ call.pc = "twice" =>
          /\ call.ret = "True"
          /\ call.ret_again = "True"
          /\ collections = call.after

validate_filename(v) ==
    \E i \in DOMAIN v :
        /\ v[i] = "."
        /\ 1 < i /\ i < Len(v)
        /\ \A j \in 1..(i - 1) : v[j] \in Alnum \cup Punct
        /\ \A j \in (i + 1)..Len(v) : v[j] \in Alnum

\* any(filename.lower().endswith(ext) for ext in ['.pdf', '.txt', '.md'])
validate_file_upload(filename) ==
    \E ext \in {"pdf", "txt", "md"} : EndsWith(filename, <<".", ext>>)

Accepted(filename) == validate_filename(filename) /\ validate_file_upload(filename)

Stems == SeqsUpTo({"a", ".", "-", "_"}, MaxStem)

Filenames == {stem \o <<".", ext>> : stem \in Stems, ext \in {"txt", "exe"}}

InitIds ==
    /\ processing_status = <<>>
    /\ collections = IdleStore
    /\ runs = [r \in Runs |-> IdleRun]
    /\ queries = [q \in Queries |-> IdleQuery]
    /\ \E t \in Tech, f1 \in Filenames, f2 \in Filenames, n \in 1..MaxChunks :
         call = [fn |-> "generate_unique_chunk_ids", pc |-> "called",
                 tech |-> t, file1 |-> f1, file2 |-> f2, chunk_count |-> n,
                 accepted |-> FALSE, safe1 |-> <<>>, safe2 |-> <<>>,
                 ids1 |-> <<>>, ids2 |-> <<>>]

\* Both uploads pass validation and the ids of their chunks are generated.
GenerateIds ==
    /\ call.fn = "generate_unique_chunk_ids"
    /\ call.pc = "called"
    /\ Accepted(call.file1)
    /\ Accepted(call.file2)
    /\ call' = [call EXCEPT
          !.pc = "returned",
          !.accepted = TRUE,
          !.safe1 = create_safe_filename(call.file1),
          !.safe2 = create_safe_filename(call.file2),
          !.ids1 = generate_unique_chunk_ids(call.tech, call.file1, call.chunk_count),
          !.ids2 = generate_unique_chunk_ids(call.tech, call.file2, call.chunk_count)]
    /\ UNCHANGED <<processing_status, collections, runs, queries>>

\* One of the uploads is refused; nothing is indexed.
RejectUpload ==
    /\ call.fn = "generate_unique_chunk_ids"
    /\ call.pc = "called"
    /\ ~(Accepted(call.file1) /\ Accepted(call.file2))
    /\ call' = [call EXCEPT !.pc = "rejected"]
    /\ UNCHANGED <<processing_status, collections, runs, queries>>

NextIds == GenerateIds \/ RejectUpload

SpecIds == InitIds /\ [][NextIds]_vars

\* C10: for two distinct accepted filenames of one technology the sanitized
\* filenames differ and the two id lists share no id, and the ids of one
\* file are pairwise distinct.
C10_ChunkIdsUnique ==
    (call.fn = "generate_unique_chunk_ids" /\ call.pc = "returned") =>
        /\ \A i, j \in DOMAIN call.ids1 : i # j => call.ids1[i] # call.ids1[j]
        /\ call.file1 # call.file2 =>
              /\ call.safe1 # call.safe2
              /\ Range(call.ids1) \cap Range(call.ids2) = {}

(***************************************************************************)
(* Re-indexing: process_and_index_document (indexer.py:48-144) as one      *)
(* call run without interleaving, then called again for the same           *)
(* technology and file.  outcome is what reading the file does (the same   *)
(* both times: the file content is the same).                              *)
(***************************************************************************)
\* collection.add(ids=...): the store keeps the chunk it has under an id and
\* skips an added chunk of the same id.
StoreAdd(cols, name, chunks) ==
    [cols EXCEPT ![name] = @ \cup {c \in chunks : \A x \in cols[name] : x.id # c.id}]

\* A run that creates the technology's collection, then fails.
FailAfterCreating(ps, cols, tech_id, file, outcome) ==
    [status |-> SetStatus(ps, tech_id, FALSE),
     cols |-> get_or_create_collection(cols, TechCollection(tech_id)),
     ret |-> "False", ids |-> <<>>]

\* lines 48-144.  The result is the flags and the store after the call, the
\* value returned and the ids handed to collection.add (<<>> when line 130
\* is not reached).  get_hf_embeddings returns one embedding per text
\* (hf_models.py:36-38), so the test of line 115 does not fail.
process_and_index_document(ps, cols, tech_id, file, outcome) ==
    LET started == SetStatus(ps, tech_id, TRUE)
        failed(exit) == [status |-> exit.status, cols |-> cols,
                         ret |-> exit.ret, ids |-> <<>>]
    IN  IF outcome \in {"pdf_error", "unsupported", "blank"}
        THEN failed(ClearAndFail(started, tech_id))
        ELSE IF outcome = "read_error"
        THEN failed(ExceptHandler(started, tech_id))
        ELSE LET chunks_data == create_semantic_chunks("text")
             IN  IF chunks_data.kind = "raise"
                 THEN failed(ExceptHandler(started, tech_id))
                 ELSE LET n == Len(chunks_data.value)
                          name == TechCollection(tech_id)
                      IN  IF n = 0
                          THEN failed(ClearAndFail(started, tech_id))
                          ELSE [status |-> SetStatus(started, tech_id, FALSE),
                                cols |-> StoreAdd(get_or_create_collection(cols, name),
                                                  name, IndexedChunks(tech_id, file, n)),
                                ret |-> "True",
                                ids |-> generate_unique_chunk_ids(tech_id, file, n)]

InitReindex ==
    /\ processing_status = <<>>
    /\ collections \in InitialStores
    /\ runs = [r \in Runs |-> IdleRun]
    /\ queries = [q \in Queries |-> IdleQuery]
    /\ call = [fn |-> "process_and_index_document", pc |-> "none"]

IndexOnce(tech_id, file, outcome) ==
    /\ call.fn = "process_and_index_document"
    /\ call.pc = "none"
    /\ outcome \in ReadOutcomes(Suffix(file))
    /\ LET done == process_and_index_document(processing_status, collections,
                                              tech_id, file, outcome)
       IN  /\ processing_status' = done.status
           /\ collections' = done.cols
           /\ call' = [fn |-> "process_and_index_document", pc |-> "once",
                       tech |-> tech_id, file |-> file, outcome |-> outcome,
                       before |-> collections,
                       ret |-> done.ret, ids |-> done.ids, after |-> done.cols]
    /\ UNCHANGED <<runs, queries>>

IndexAgain ==
    /\ call.fn = "process_and_index_document"
    /\ call.pc = "once"
    /\ LET done == process_and_index_document(processing_status, collections,
                                              call.tech, call.file, call.outcome)
       IN  /\ processing_status' = done.status
           /\ collections' = done.cols
           /\ call' = [fn |-> "process_and_index_document", pc |-> "twice",
                       tech |-> call.tech, file |-> call.file,
                       outcome |-> call.outcome, before |-> call.before,
                       ret |-> call.ret, ids |-> call.ids, after |-> call.after,
                       ret_again |-> done.ret, ids_again |-> done.ids]
    /\ UNCHANGED <<runs, queries>>

NextReindex ==
    \/ \E t \in Tech, f \in Files, o \in {"pdf_error", "read_error", "unsupported",
                                          "blank", "text"} : IndexOnce(t, f, o)
    \/ IndexAgain

SpecReindex == InitReindex /\ [][NextReindex]_vars

\* The chunks a collection holds for a file.
ChunksOf(cols, tech_id, file) ==
    {c \in Contents(cols, TechCollection(tech_id)) : c.source = file}

\* C11: two runs of process_and_index_document for the same technology,
\* file and non-blank content both index the file with the same id list,
\* and after the second run the collection holds for the file the chunks it
\* held after the first, one chunk per id.
C11_ReindexIdempotent ==
    (call.fn = "process_and_index_document" /\ call.pc = "twice"
        /\ call.outcome = "text") =>
        /\ call.ret = "True"
        /\ call.ret_again = "True"
        /\ call.ids # <<>>
        /\ call.ids_again = call.ids
        /\ ChunksOf(collections, call.tech, call.file)
              = ChunksOf(call.after, call.tech, call.file)
        /\ {c.id : c \in ChunksOf(collections, call.tech, call.file)} = Range(call.ids)

\* C12: a run of process_and_index_document that returns False leaves the
\* store (its collections and their chunks) as it was before the run, and
\* leaves the technology's flag false.
C12_FailedRunWritesNothing ==
    (call.fn = "process_and_index_document" /\ call.pc \in {"once", "twice"}) =>
        /\ call.ret = "False" => call.after = call.before
        /\ (call.pc = "once" /\ call.ret = "False") =>
              /\ collections = call.before
              /\ ~is_processing(processing_status, call.tech)
        /\ (call.pc = "twice" /\ call.ret_again = "False") =>
              /\ collections = call.after
              /\ ~is_processing(processing_status, call.tech)

\* A run for a technology that has no collection yet failed at chunking:
\* it returned False, the store is as before and the flag is stored false.
C12_Witness ==
    /\ call.fn = "process_and_index_document"
    /\ call.pc = "once"
    /\ call.outcome = "text"
    /\ call.ret = "False"
    /\ TechCollection(call.tech) \notin DOMAIN call.before
    /\ collections = call.before
    /\ call.tech \in DOMAIN processing_status
    /\ processing_status[call.tech] = FALSE

(***************************************************************************)
(* Properties of retrieval and of input errors, on the interleaved         *)
(* specification Spec.                                                     *)
(***************************************************************************)
\* C13: no call of get_cached_search ends by raising the error of a failed
\* collection query (outcome "StoreError"): a failed query counts as an
\* empty result and the call returns.
C13_StoreFailureDegrades ==
    \A q \in Queries : queries[q].outcome # "StoreError"

\* C14: no step of a get_cached_search call changes the set of collections,
\* the chunks of a collection or a processing flag.
C14_RetrievalReadOnly ==
    [][\A q \in Queries : queries'[q] # queries[q] =>
          /\ collections' = collections
          /\ processing_status' = processing_status]_vars

\* C17: when a run returns because the file type is unsupported or the text
\* is blank, and no other run is in progress, the flag of its technology was
\* not true before it returned: the run never set it.
C17_InputErrorsBeforeProcessing ==
    [][\A r \in Runs :
          (/\ Returns(r)
           /\ runs'[r].exit \in {"blank", "unsupported"}
           /\ \A r2 \in Runs \ {r} : runs[r2].pc = "idle") =>
              ~is_processing(processing_status, runs[r].tech)]_vars

(***************************************************************************)
(* Isolation of technologies: one indexing run, one query and document     *)
(* removals, interleaved.  /remove-file calls remove_document_from_index   *)
(* on the event loop (routes.py:384), so a removal is one step; call keeps *)
(* the technology and the result of the last removal.                      *)
(***************************************************************************)
RemoveDocument(tech_id, filename, fail) ==
    /\ call.fn \in {"none", "remove_document_from_index"}
    /\ LET done == remove_document_from_index(collections, tech_id, filename, fail)
       IN  /\ collections' = done.cols
           /\ call' = [fn |-> "remove_document_from_index", tech |-> tech_id,
                       ret |-> done.ret]
    /\ UNCHANGED <<processing_status, runs, queries>>

NextIsolation ==
    \/ \E t \in Tech, f \in Files : IndexBegin(1, t, f)
    \/ IndexExtract(1)
    \/ IndexChunk(1)
    \/ \E q \in Queries, t \in Tech : SearchCheck(q, t, 1)
    \/ \E q \in Queries : SearchTech(q)
    \/ \E q \in Queries : SearchTrl(q)
    \/ \E t \in Tech, f \in Files, fail \in StoreFaults : RemoveDocument(t, f, fail)

SpecIsolation == Init /\ [][NextIsolation]_vars

\* The step leaves the flag and the chunks of every technology but tech_id
\* as they are.
OthersUntouched(tech_id) ==
    \A t2 \in Tech \ {tech_id} :
        /\ is_processing(processing_status', t2) = is_processing(processing_status, t2)
        /\ (t2 \in DOMAIN processing_status') = (t2 \in DOMAIN processing_status)
        /\ Contents(collections', TechCollection(t2))
              = Contents(collections, TechCollection(t2))

\* C15: a step of an indexing run or a document removal for one technology
\* changes neither the flag nor the chunks of another technology, and a
\* query is refused only when the flag of its own technology is true.  (A
\* step that changes neither runs nor queries is a removal, for the
\* technology it leaves in call.)
C15_TechnologiesIsolated ==
    [][/\ \A r \in Runs : runs'[r] # runs[r] => OthersUntouched(runs'[r].tech)
       /\ (runs' = runs /\ queries' = queries /\ vars' # vars) =>
             OthersUntouched(call'.tech)
       /\ \A q \in Queries :
             (queries[q].pc = "idle" /\ queries'[q] # queries[q]
                 /\ queries'[q].outcome = "ValueError") =>
                 is_processing(processing_status, queries'[q].tech)]_vars

\* While a run for t1 is in progress and the text file of t1 has been
\* removed from its collection, a query for t2 has passed its flag check and
\* tech_t2 still holds its chunks.
C15_Witness ==
    /\ runs[1].pc # "idle" /\ runs[1].tech = "t1"
    /\ is_processing(processing_status, "t1")
    /\ ~is_processing(processing_status, "t2")
    /\ call.fn = "remove_document_from_index" /\ call.tech = "t1" /\ call.ret = "True"
    /\ IndexedChunks("t1", FilePdf, 1) \subseteq Contents(collections, TechCollection("t1"))
    /\ NoMatch(collections, "t1", FileTxt)
    /\ IndexedChunks("t2", FileTxt, 2) \subseteq Contents(collections, TechCollection("t2"))
    /\ \E q \in Queries : queries[q].pc = "query_tech" /\ queries[q].tech = "t2"

(***************************************************************************)
(* The /answer handler (routes.py:201-305) for a request that names a      *)
(* technology and a valid question, interleaved with an indexing run.  The *)
(* handler runs on the event loop; process_and_index_document runs in a    *)
(* worker thread (routes.py:121), so it can set the flag between the       *)
(* handler's check of line 246 and the check get_cached_search makes at    *)
(* context_retriever.py:17.                                                *)
(*   pc = "search"    line 246 read the flag false; line 263 is next       *)
(*   pc = "retrieve"  get_cached_search read the flag false at line 17     *)
(*   pc = "responded" the response was produced; code is its error code    *)
(*                    ("OK" for an AnswerResponse) and refused_at the flag *)
(*                    check that found the flag true, if one did           *)
(***************************************************************************)
AnswerK == 6            \* routes.py:263, k=6
DefaultLimit == 3500    \* context_retriever.py:117, limit: int = 3500

Respond(tech_id, code, refused_at) ==
    [fn |-> "answer", pc |-> "responded", tech |-> tech_id, code |-> code,
     refused_at |-> refused_at]

\* lines 212-260
AnswerCheck(tech_id) ==
    /\ call.fn = "none"
    /\ IF is_processing(processing_status, tech_id)
       THEN call' = Respond(tech_id, "STILL_PROCESSING", "answer")
       ELSE call' = [fn |-> "answer", pc |-> "search", tech |-> tech_id,
                     code |-> "none", refused_at |-> "none"]
    /\ UNCHANGED <<processing_status, collections, runs, queries>>

\* line 263 up to the check of get_cached_search (context_retriever.py:
\* 15-19); its ValueError is caught at routes.py:295-303.
AnswerSearch ==
    /\ call.fn = "answer"
    /\ call.pc = "search"
    /\ IF is_processing(processing_status, call.tech)
       THEN call' = Respond(call.tech, "NOT_FOUND", "get_cached_search")
       ELSE call' = [call EXCEPT !.pc = "retrieve"]
    /\ UNCHANGED <<processing_status, collections, runs, queries>>

\* context_retriever.py:21-62, then routes.py:264-292 and 304-305: the two
\* collection queries, the fusion, trim_for_ctx when there are passages, the
\* prompt and the LLM call.  Every exception but ValueError ends in
\* handle_api_error (routes.py:38-58).
AnswerRetrieve ==
    /\ call.fn = "answer"
    /\ call.pc = "retrieve"
    /\ LET name == TechCollection(call.tech)
           created == get_or_create_collection(
                          get_or_create_collection(collections, name), TrlCollection)
       IN  \/ /\ call' = Respond(call.tech, "INTERNAL_ERROR", "none")
              /\ collections' \in {collections, created}
           \/ \E tech_ranked \in Rankings(created[name]),
                 trl_ranked \in Rankings(created[TrlCollection]),
                 tokens \in 1..MaxTokens :
                LET passages == FuseCandidates(
                        _process_collection_results_with_scores(
                            Take(tech_ranked, NResults(AnswerK)), <<call.tech>>),
                        _process_collection_results_with_scores(
                            Take(trl_ranked, NResults(AnswerK)), <<>>),
                        AnswerK)
                    context ==
                        IF passages = <<>>
                        THEN Return(<<MsgNoContext>>)
                        ELSE trim_for_ctx(Passages([i \in DOMAIN passages |-> tokens]),
                                          DefaultLimit, DefaultLimit)
                IN  /\ collections' = created
                    /\ IF context.kind = "raise"
                       THEN call' = Respond(call.tech, "INTERNAL_ERROR", "none")
                       ELSE call' \in {Respond(call.tech, "OK", "none"),
                                       Respond(call.tech, "INTERNAL_ERROR", "none")}
    /\ UNCHANGED <<processing_status, runs, queries>>

NextAnswer ==
    \/ \E t \in Tech, f \in Files : IndexBegin(1, t, f)
    \/ IndexExtract(1)
    \/ IndexChunk(1)
    \/ \E t \in Tech : AnswerCheck(t)
    \/ AnswerSearch
    \/ AnswerRetrieve

SpecAnswer == Init /\ [][NextAnswer]_vars

\* C16: an /answer request that a flag check refused, whichever check it
\* was, has responded with error code STILL_PROCESSING.
C16_RefusalIsStillProcessing ==
    (call.fn = "answer" /\ call.pc = "responded" /\ call.refused_at # "none") =>
        call.code = "STILL_PROCESSING"

(***************************************************************************)
(* create_semantic_chunks on its own: one call on each text of at most     *)
(* MaxTextLen atoms.                                                       *)
(***************************************************************************)
MaxTextLen == 6

TextAtoms == {Newline, "introduction", "abstract", "x"}

Texts == SeqsUpTo(TextAtoms, MaxTextLen)

InitChunks ==
    /\ processing_status = [t \in Tech |-> FALSE]
    /\ collections \in InitialStores
    /\ runs = [r \in Runs |-> IdleRun]
    /\ queries = [q \in Queries |-> IdleQuery]
    /\ \E text \in Texts :
          call = [fn |-> "create_semantic_chunks", pc |-> "called", text |-> text]

ChunkText ==
    /\ call.fn = "create_semantic_chunks"
    /\ call.pc = "called"
    /\ call' = [fn |-> "create_semantic_chunks", pc |-> "returned",
                text |-> call.text, result |-> create_semantic_chunks(call.text)]
    /\ UNCHANGED <<processing_status, collections, runs, queries>>

NextChunks == ChunkText

SpecChunks == InitChunks /\ [][NextChunks]_vars

ChunksReturned == call.fn = "create_semantic_chunks" /\ call.pc = "returned"

\* The words the section assignment gives to section s: a paragraph with no
\* header line goes whole to the label in force, a paragraph with a header
\* line gives the lines after that line to the header's section.
RECURSIVE AssignedWords(_, _, _)
AssignedWords(paragraphs, label, s) ==
    IF paragraphs = <<>> THEN 0
    ELSE LET lines == Split(Strip(Head(paragraphs)), 1)
             h == FirstHeaderLine(lines)
         IN  IF h = 0
             THEN (IF label = s THEN Words(Head(paragraphs)) ELSE 0)
                      + AssignedWords(Tail(paragraphs), label, s)
             ELSE (IF section_headers(lines[h]) = s
                   THEN Words(JoinLines(SubSeq(lines, h + 1, Len(lines)), 1))
                   ELSE 0)
                      + AssignedWords(Tail(paragraphs), section_headers(lines[h]), s)

RECURSIVE WordsOfSection(_, _)
WordsOfSection(chunks, s) ==
    IF chunks = <<>> THEN 0
    ELSE (IF Head(chunks).section = s THEN Words(Head(chunks).text) ELSE 0)
             + WordsOfSection(Tail(chunks), s)

\* C19: a finished create_semantic_chunks has returned chunks in which each
\* section holds the text of the paragraphs without a header line that
\* follow its header ("other" before any header) and the lines that follow
\* the header line in the header's paragraph; when no line of the text
\* matches a rule, all the text is in chunks of section "other".
C19_SectionAssignment ==
    ChunksReturned =>
        /\ call.result.kind = "return"
        /\ \A s \in Range(defined_section_keys) \cup {"other"} :
              WordsOfSection(call.result.value, s)
                  = AssignedWords(Paragraphs(call.text), "other", s)
        /\ (\A i \in DOMAIN call.text :
                call.text[i] \notin Range(defined_section_keys)) =>
               /\ \A n \in DOMAIN call.result.value :
                     call.result.value[n].section = "other"
               /\ WordsOfSection(call.result.value, "other") = Words(call.text)

\* The place of a section in the order abstract, ..., appendices, other
SectionRank(s) ==
    IF s = "other" THEN Len(defined_section_keys) + 1
    ELSE CHOOSE n \in DOMAIN defined_section_keys : defined_section_keys[n] = s

\* C20: a finished create_semantic_chunks has returned a chunk list grouped
\* by section in the order abstract, introduction, methodology, results,
\* discussion, conclusion, references, appendices, other; the chunks of a
\* section carry chunk_in_section 1, 2, ..., n in list order, so that the
\* index of a chunk's id, its place in the list, follows that order.
C20_CanonicalSectionOrder ==
    ChunksReturned =>
        /\ call.result.kind = "return"
        /\ \A i, j \in DOMAIN call.result.value :
              i < j => SectionRank(call.result.value[i].section)
                          <= SectionRank(call.result.value[j].section)
        /\ \A i \in DOMAIN call.result.value :
              call.result.value[i].chunk_in_section =
                  Cardinality({j \in 1..i : call.result.value[j].section
                                               = call.result.value[i].section})

\* C21: a finished create_semantic_chunks has returned chunks of which none
\* has more than ChunkSizeTokens tokens, except a chunk that is one line, the
\* unit the splitter does not cut.
C21_ChunkSizeBound ==
    ChunksReturned =>
        /\ call.result.kind = "return"
        /\ \A n \in DOMAIN call.result.value :
              \/ Words(call.result.value[n].text) <= ChunkSizeTokens
              \/ \A i \in DOMAIN call.result.value[n].text :
                    call.result.value[n].text[i] # Newline

(***************************************************************************)
(* get_cached_search on its own (context_retriever.py:15-62): one call,    *)
(* with the flag false, on a technology collection and a shared collection *)
(* of any contents.  Each collection.query answers with a ranking of the    *)
(* whole collection cut to n_results, or raises.                           *)
(***************************************************************************)
InitSearch ==
    /\ processing_status = <<>>
    /\ runs = [r \in Runs |-> IdleRun]
    /\ queries = [q \in Queries |-> IdleQuery]
    /\ \E k \in 1..MaxK, tech_ds \in DistanceLists, trl_ds \in DistanceLists :
         /\ collections =
               [name \in {TechCollection("t1"), TrlCollection} |->
                   IF name = TrlCollection
                   THEN Range(QueryResult("g", <<>>, trl_ds))
                   ELSE Range(QueryResult("c", FileTxt, tech_ds))]
         /\ call = [fn |-> "get_cached_search", pc |-> "called", tech |-> "t1",
                    k |-> k, result |-> Return(<<>>)]

SearchOnce ==
    /\ call.fn = "get_cached_search"
    /\ call.pc = "called"
    /\ LET name == TechCollection(call.tech)
           created == get_or_create_collection(
                          get_or_create_collection(collections, name), TrlCollection)
       IN  IF is_processing(processing_status, call.tech)
           THEN /\ call' = [call EXCEPT !.pc = "returned", !.result = Raise("ValueError")]
                /\ UNCHANGED collections
           ELSE \/ /\ call' = [call EXCEPT !.pc = "returned",
                                            !.result = Raise("StoreError")]
                   /\ collections' = created
                \/ \E tech_ranked \in Rankings(created[name]),
                      trl_ranked \in Rankings(created[TrlCollection]) :
                     /\ call' = [call EXCEPT
                           !.pc = "returned",
                           !.result = Return(FuseCandidates(
                               _process_collection_results_with_scores(
                                   Take(tech_ranked, NResults(call.k)), <<call.tech>>),
                               _process_collection_results_with_scores(
                                   Take(trl_ranked, NResults(call.k)), <<>>),
                               call.k))]
                     /\ collections' = created
    /\ UNCHANGED <<processing_status, runs, queries>>

NextSearch == SearchOnce

SpecSearch == InitSearch /\ [][NextSearch]_vars

SearchReturned ==
    call.fn = "get_cached_search" /\ call.pc = "returned" /\ call.result.kind = "return"

\* C23: when both collection queries answered, the passages get_cached_search
\* has returned are min(k, size of the union) distinct chunks of the two
\* whole collections, and no chunk of either collection that was left out is
\* strictly nearer than a chunk that was returned.
C23_OverFetchLosesNothing ==
    SearchReturned =>
        LET all == collections[TechCollection(call.tech)] \cup collections[TrlCollection]
            out == call.result.value
            kept == {out[i].id : i \in DOMAIN out}
        IN  /\ Len(out) = Min(call.k, Cardinality(all))
            /\ \A i, j \in DOMAIN out : i # j => out[i].id # out[j].id
            /\ \A i \in DOMAIN out :
                  \E c \in all : c.id = out[i].id /\ c.distance = out[i].distance
            /\ \A c \in all : c.id \notin kept =>
                  \A i \in DOMAIN out : out[i].distance <= c.distance

\* A call with k = 1 on a technology collection of more than 2k chunks whose
\* two nearest chunks are both nearer than every shared chunk.
C23_Witness ==
    /\ SearchReturned
    /\ call.k = 1
    /\ Cardinality(collections[TechCollection(call.tech)]) > NResults(call.k)
    /\ collections[TrlCollection] # {}
    /\ Len(call.result.value) = 1
    /\ \A c \in collections[TrlCollection] : call.result.value[1].distance < c.distance

\* C24: in every state the flag of a technology reads true when a run of
\* process_and_index_document for that technology has started and has not
\* returned, also when several runs for the technology overlap.
C24_FlagTracksRunningWork ==
    \A t \in Tech : InProgress(t) => is_processing(processing_status, t)

\* C25: in the step in which a call of get_cached_search queries the
\* collection of its technology, no run of process_and_index_document for
\* that technology is between setting the flag and returning.
C25_NoQueryWhileIndexing ==
    [][\A q \in Queries :
          (queries[q].pc = "query_tech" /\ queries'[q].issued = 1) =>
              ~InProgress(queries[q].tech)]_vars

(***************************************************************************)
(* /upload-files and /status (routes.py:60-166) with the indexing run an   *)
(* upload dispatches.  background_tasks.add_task (line 121) only records    *)
(* the task: Starlette starts process_and_index_document in a worker       *)
(* thread after the response has been sent.                                *)
(*   pc = "rejected"    the request was answered 422                       *)
(*   pc = "partial"     a chunk that is not the last was stored            *)
(*   pc = "dispatched"  the final chunk was answered status "ok",          *)
(*                      processing "started"; the task has not begun       *)
(*   pc = "running"     the task has executed lines 48-52 of indexer.py    *)
(*   pc = "finished"    the task has returned                              *)
(***************************************************************************)
\* lines 155-166: the status /status reports
check_status(ps, technology_id) ==
    IF is_processing(ps, technology_id) THEN "processing" ELSE "ready"

\* lines 72-133
UploadFiles(tech_id, filename, final) ==
    /\ call.fn = "none" \/ (call.fn = "upload_files"
                             /\ call.pc \in {"rejected", "partial", "finished"})
    /\ call' = [fn |-> "upload_files", tech |-> tech_id, file |-> filename,
                pc |-> IF ~Accepted(filename) THEN "rejected"
                       ELSE IF final THEN "dispatched" ELSE "partial"]
    /\ UNCHANGED <<processing_status, collections, runs, queries>>

\* The dispatched task begins: indexer.py:48-52
TaskBegin ==
    /\ call.fn = "upload_files"
    /\ call.pc = "dispatched"
    /\ runs[1].pc = "idle"
    /\ processing_status' = SetStatus(processing_status, call.tech, TRUE)
    /\ runs' = [runs EXCEPT ![1] = [pc |-> "extract", tech |-> call.tech,
                                     file |-> call.file, ret |-> "none",
                                     exit |-> "none"]]
    /\ call' = [call EXCEPT !.pc = "running"]
    /\ UNCHANGED <<collections, queries>>

\* indexer.py:53-97 of the dispatched task
TaskExtract ==
    /\ call.fn = "upload_files"
    /\ call.pc = "running"
    /\ runs[1].pc = "extract"
    /\ \E outcome \in ReadOutcomes(Suffix(runs[1].file)) :
         IF outcome = "text"
         THEN /\ runs' = [runs EXCEPT ![1].pc = "chunk"]
              /\ UNCHANGED <<processing_status, call>>
         ELSE LET exit == IF outcome = "read_error"
                          THEN ExceptHandler(processing_status, runs[1].tech)
                          ELSE ClearAndFail(processing_status, runs[1].tech)
              IN  /\ processing_status' = exit.status
                  /\ runs' = [runs EXCEPT ![1] =
                                [IdleRun EXCEPT !.tech = runs[1].tech,
                                                !.ret = exit.ret,
                                                !.exit = outcome]]
                  /\ call' = [call EXCEPT !.pc = "finished"]
    /\ UNCHANGED <<collections, queries>>

\* indexer.py:98-144 of the dispatched task
TaskChunk ==
    /\ call.fn = "upload_files"
    /\ call.pc = "running"
    /\ runs[1].pc = "chunk"
    /\ LET done == process_and_index_document(processing_status, collections,
                                               runs[1].tech, runs[1].file, "text")
       IN  /\ processing_status' = done.status
           /\ collections' = done.cols
           /\ runs' = [runs EXCEPT ![1] =
                          [IdleRun EXCEPT !.tech = runs[1].tech, !.ret = done.ret,
                                          !.exit = IF done.ret = "True" THEN "indexed"
                                                   ELSE "chunking_error"]]
           /\ call' = [call EXCEPT !.pc = "finished"]
    /\ UNCHANGED queries

NextUpload ==
    \/ \E t \in Tech, f \in Files, final \in BOOLEAN : UploadFiles(t, f, final)
    \/ TaskBegin
    \/ TaskExtract
    \/ TaskChunk

SpecUpload == Init /\ [][NextUpload]_vars

\* C26: from the answer "ok"/"started" to a final upload for a technology
\* until the run dispatched for it has returned, the flag of the technology
\* reads true and /status reports "processing".
C26_ProcessingFromResponse ==
    (call.fn = "upload_files" /\ call.pc \in {"dispatched", "running"}) =>
        /\ is_processing(processing_status, call.tech)
        /\ check_status(processing_status, call.tech) = "processing"

(***************************************************************************)
(* /remove-file (routes.py:352-397) interleaved with an indexing run.      *)
(* exists tells whether the file is in the upload directory when line 370  *)
(* looks for it; fail names the store call that raises inside              *)
(* remove_document_from_index, if any.                                     *)
(***************************************************************************)
RemoveFile(tech_id, filename, exists, fail) ==
    /\ call.fn \in {"none", "remove_file"}
    /\ IF ~exists
       THEN /\ call' = [fn |-> "remove_file", tech |-> tech_id, file |-> filename,
                        status |-> "FILE_NOT_FOUND", success |-> "none"]
            /\ UNCHANGED collections
       ELSE LET done == remove_document_from_index(collections, tech_id, filename, fail)
            IN  /\ call' = [fn |-> "remove_file", tech |-> tech_id, file |-> filename,
                            status |-> "removed", success |-> done.ret]
                /\ collections' = done.cols
    /\ UNCHANGED <<processing_status, runs, queries>>

NextRemoveFile ==
    \/ \E t \in Tech, f \in Files : IndexBegin(1, t, f)
    \/ IndexExtract(1)
    \/ IndexChunk(1)
    \/ \E t \in Tech, f \in Files, exists \in BOOLEAN, fail \in StoreFaults :
          RemoveFile(t, f, exists, fail)

SpecRemoveFile == Init /\ [][NextRemoveFile]_vars

\* C27: once /remove-file has answered "removed" for a file of a technology
\* and no indexing run for the technology is in progress, the collection of
\* the technology holds no chunk whose source is that file, also when
\* remove_document_from_index returned False.
C27_RemovedFileLeavesNoChunks ==
    (call.fn = "remove_file" /\ call.status = "removed" /\ ~InProgress(call.tech)) =>
        \A c \in Contents(collections, TechCollection(call.tech)) :
            c.source # call.file

\* The words of the matched header lines: in each paragraph that has a line
\* matching a rule, the first such line.
RECURSIVE HeaderLineWords(_)
HeaderLineWords(paragraphs) ==
    IF paragraphs = <<>> THEN 0
    ELSE LET lines == Split(Strip(Head(paragraphs)), 1)
             h == FirstHeaderLine(lines)
         IN  (IF h = 0 THEN 0 ELSE Words(lines[h])) + HeaderLineWords(Tail(paragraphs))

RECURSIVE WordsOfChunks(_)
WordsOfChunks(chunks) ==
    IF chunks = <<>> THEN 0
    ELSE Words(Head(chunks).text) + WordsOfChunks(Tail(chunks))

\* C28: a finished create_semantic_chunks has returned chunks that hold,
\* once each, all the lines of the text but the matched header line of each
\* paragraph: the lines before a header line of the same paragraph and the
\* header-like lines after it are kept.
C28_ParsingLosesNoContent ==
    ChunksReturned =>
        /\ call.result.kind = "return"
        /\ WordsOfChunks(call.result.value)
              = Words(call.text) - HeaderLineWords(Paragraphs(call.text))

(***************************************************************************)
(* ChromaDBService.add_document_chunks (chromadb_service.py:35-73) on its  *)
(* own: one call with four lists of any lengths up to MaxListLen.          *)
(* collection.add raises when its lists differ in length or are empty, or  *)
(* when the store fails; the method's handler turns every exception into   *)
(* the value False.  error is the exception the handler logged.            *)
(***************************************************************************)
MaxListLen == 2

MsgSameLength == "All input lists must have the same length"      \* line 58

\* A test that holds as soon as two of the lengths differ.
AnyLengthDiffers(a, b, c, d) == ~(a = b /\ b = c /\ c = d)

\* line 57: len(texts) != len(embeddings) != len(metadatas) != len(chunk_ids),
\* a chained comparison: each length is compared with the next one only,
\* and all three comparisons have to hold.
LengthsDiffer(a, b, c, d) == a # b /\ b # c /\ c # d

add_document_chunks(cols, tech_id, texts, embeddings, metadatas, chunk_ids, fail) ==
    LET name == TechCollection(tech_id)
        created == get_or_create_collection(cols, name)
        consistent == /\ Len(texts) = Len(chunk_ids)
                      /\ Len(embeddings) = Len(chunk_ids)
                      /\ Len(metadatas) = Len(chunk_ids)
    IN  IF LengthsDiffer(Len(texts), Len(embeddings), Len(metadatas), Len(chunk_ids))
        THEN [cols |-> cols, ret |-> "False", error |-> MsgSameLength]
        ELSE IF fail \/ ~consistent \/ chunk_ids = <<>>
        THEN [cols |-> created, ret |-> "False", error |-> "collection.add"]
        ELSE [cols |-> StoreAdd(created, name,
                          {[id |-> chunk_ids[i], source |-> metadatas[i],
                            distance |-> embeddings[i]] : i \in DOMAIN chunk_ids}),
              ret |-> "True", error |-> "none"]

FileNew == <<"b", ".", "txt">>

InitAdd ==
    /\ processing_status = <<>>
    /\ collections \in InitialStores
    /\ runs = [r \in Runs |-> IdleRun]
    /\ queries = [q \in Queries |-> IdleQuery]
    /\ \E t \in Tech, lens \in [1..4 -> 0..MaxListLen] :
         call = [fn |-> "add_document_chunks", pc |-> "called", tech |-> t,
                 texts |-> [i \in 1..lens[1] |-> "x"],
                 embeddings |-> [i \in 1..lens[2] |-> i],
                 metadatas |-> [i \in 1..lens[3] |-> FileNew],
                 chunk_ids |-> generate_unique_chunk_ids(t, FileNew, lens[4]),
                 before |-> collections, ret |-> "none", error |-> "none"]

AddChunks(fail) ==
    /\ call.fn = "add_document_chunks"
    /\ call.pc = "called"
    /\ LET done == add_document_chunks(collections, call.tech, call.texts,
                        call.embeddings, call.metadatas, call.chunk_ids, fail)
       IN  /\ collections' = done.cols
           /\ call' = [call EXCEPT !.pc = "returned", !.ret = done.ret,
                                   !.error = done.error]
    /\ UNCHANGED <<processing_status, runs, queries>>

NextAdd == \E fail \in BOOLEAN : AddChunks(fail)

SpecAdd == InitAdd /\ [][NextAdd]_vars

\* C30: a finished add_document_chunks whose four lists do not all have
\* the same length has returned False on the error "All input lists must
\* have the same length" and the collection holds the chunks it held before.
C30_RejectsInconsistentLists ==
    (/\ call.fn = "add_document_chunks"
     /\ call.pc = "returned"
     /\ AnyLengthDiffers(Len(call.texts), Len(call.embeddings),
                         Len(call.metadatas), Len(call.chunk_ids))) =>
        /\ call.ret = "False"
        /\ call.error = MsgSameLength
        /\ Contents(collections, TechCollection(call.tech))
              = Contents(call.before, TechCollection(call.tech))

====
